---- MODULE Spec2Model ----
(***************************************************************************)
(* The line-delimited decision services of dlv-sim:                        *)
(*   - agents/debt/inference.py : the rule-based (debt) service, whose     *)
(*     session state is the dict `state` holding at most "last_action";    *)
(*   - agents/alm/inference.py  : the feed-forward (ALM) service, which    *)
(*     keeps no session state;                                             *)
(*   - the recurrent service of the specification, whose session state is  *)
(*     the memory of agents/debt/model.py (reccurentActor).  Its command   *)
(*     loop is not among the sources and is modelled from sections 3, 4    *)
(*     and 7 of the specification; its evaluator is reccurentActor.act.    *)
(* One process runs one service (the variable svc).  Its main loop is      *)
(* modelled by its positions: "read" (the top of the for loop), "handled"  *)
(* (a line was read and the loop body ran to its end), and the two ways    *)
(* the process ends: "eof" (the input stream ended) and "crashed" (an      *)
(* exception left main()).                                                 *)
(*                                                                         *)
(* Numbers.  The observations are Python floats.  A finite float is held   *)
(* in fixed point, in thousandths (One = 1.0); the products of the         *)
(* pressure terms are held in units of 1/10000 and leverage_actual in      *)
(* units of 1/1000000, so that all the arithmetic of _decide_action is     *)
(* exact.  The grid of observation values (below) holds only values on     *)
(* which the double-precision evaluation of _decide_action takes the same  *)
(* branch as the exact one; a slope of 0.56, for which                     *)
(* (0.56 - 0.5) * 2.0 evaluates to 0.12000000000000011 > 0.12, is left     *)
(* out for that reason.  Non-finite floats are the values nan, inf, ninf.  *)
(***************************************************************************)
EXTENDS Integers, Sequences, FiniteSets, TLC

VARIABLES
    svc,        \* which service this process runs: "debt", "alm" or "rec"
    pc,         \* position of main(): "read", "handled", "eof", "crashed"
    line,       \* the input line of the last iteration (NoLine at "read")
    state,      \* debt main(): the dict `state`
    out,        \* the response printed in the current iteration (NoResponse: none)
    prev,       \* history: `state` (in the recurrent service: hidden) as it was
                \* when the current line was read
    emitted,    \* history: the action of the last {"action": a} printed since the
                \* last {"status": "reset"} (0: none)
    justReset,  \* history: the last response printed before this iteration was
                \* {"status": "reset"}
    shadow,     \* history: `state` of a session that is sent the same lines except
                \* those answered with an error
    shadowOut,  \* history: what that session printed for the current line
    fresh,      \* history: `state` of a session started when the last reset was
                \* answered and sent the lines that followed it
    freshOut,   \* history: what that session printed for the current line
    evaluated,  \* history: the evaluator was called in this iteration
    answered,   \* history: the observation and the action of one of the infer
                \* commands of numbers answered with an action in an earlier
                \* iteration
    hidden,     \* recurrent service: the memory (h, c) of the session
    recovered   \* history: the last call of the recurrent evaluator failed and
                \* no reset was answered since

vars == <<svc, pc, line, state, out, prev, emitted, justReset,
          shadow, shadowOut, fresh, freshOut, evaluated, answered,
          hidden, recovered>>

----------------------------------------------------------------------------
(* Program constants *)

One == 1000
OBS_DIM == 10
LEVERAGE_BOTTOM == 1800
LEVERAGE_TOP == 2200
LEVERAGE_RANGE == LEVERAGE_TOP - LEVERAGE_BOTTOM
ALM_OBS_DIM == 4
ACTION_DIM == 4

(* Bounds of the model *)

\* how many elements of an observation of the rule-based service may be other
\* than finite in-range numbers
MaxOdd == 1

\* each of the two buffers of the recurrent memory takes HiddenMod values
HiddenMod == 3

----------------------------------------------------------------------------
(* Python values *)

\* A float: finite (v in thousandths) or one of the three non-finite values.
Fin(v) == [k |-> "fin", v |-> v]
NaN == [k |-> "nan", v |-> 0]
PosInf == [k |-> "inf", v |-> 0]
NegInf == [k |-> "ninf", v |-> 0]

\* math.isfinite
isfinite(x) == x.k = "fin"

Max(a, b) == IF a >= b THEN a ELSE b
Min(a, b) == IF a <= b THEN a ELSE b
Abs(a) == IF a >= 0 THEN a ELSE -a

\* The elements a JSON array can hold, as json.loads returns them.
\*   num v    : a JSON number that is a finite float
\*   nan, inf, ninf : the literals NaN, Infinity, -Infinity (json.loads takes them)
\*   numstr v : a string that float() parses, such as "0.7"
\*   str      : a string that float() does not parse
\*   null, list : None, a nested array
\*   true     : the boolean true
\*   bigint   : an integer literal beyond the range of a float, such as 1 followed
\*              by 400 zeros, which json.loads returns as an int
Num(v) == [k |-> "num", v |-> v]
Elem(k) == [k |-> k, v |-> 0]

\* float(value): the float, or the exception raised.
NoFloat(exc) == [exc |-> exc, x |-> NaN]
ToFloat(e) ==
    CASE e.k = "num"    -> [exc |-> "", x |-> Fin(e.v)]
      [] e.k = "numstr" -> [exc |-> "", x |-> Fin(e.v)]
      [] e.k = "true"   -> [exc |-> "", x |-> Fin(One)]
      [] e.k = "nan"    -> [exc |-> "", x |-> NaN]
      [] e.k = "inf"    -> [exc |-> "", x |-> PosInf]
      [] e.k = "ninf"   -> [exc |-> "", x |-> NegInf]
      [] e.k = "str"    -> NoFloat("ValueError")
      [] e.k = "null"   -> NoFloat("TypeError")
      [] e.k = "list"   -> NoFloat("TypeError")
      [] e.k = "bigint" -> NoFloat("OverflowError")

----------------------------------------------------------------------------
(* agents/debt/inference.py: the rule-based engine *)

\* _zero_center: thousandths in, thousandths out
_zero_center(value) ==
    IF ~isfinite(value) THEN 0
    ELSE Max(-One, Min(One, (value.v - 500) * 2))

\* faulty variant of _clamp01: the isfinite guard is missing, and
\* max(0.0, min(1.0, x)) gives 1.0 for nan and inf and 0.0 for -inf
_clamp01_unguarded(value) ==
    IF value.k \in {"nan", "inf"} THEN One
    ELSE IF value.k = "ninf" THEN 0
    ELSE Max(0, Min(One, value.v))

_clamp01(value) ==
    IF ~isfinite(value) THEN 0
    ELSE Max(0, Min(One, value.v))

\* state.get("last_action", 1)
EmptyState == [key \in {} |-> 0]
StateOf(a) == [key \in {"last_action"} |-> a]
\* faulty variant of the lookup: the key is misspelt, so the default is read
GetLastActionMisspelt(st) ==
    IF "last_actions" \in DOMAIN st THEN st["last_actions"] ELSE 1

GetLastAction(st) ==
    IF "last_action" \in DOMAIN st THEN st["last_action"] ELSE 1

\* The quantities _decide_action derives from the clamped and re-centered
\* fields (lines 54-75).
DerivedOf(leverage_norm, cr_norm, leverage_mean_norm, leverage_slope, vol_ratio, vol_mean, vol_slope, calm_part, calm_mean, calm_slope) ==
    [ leverage_norm |-> leverage_norm,
      cr_norm |-> cr_norm,
      leverage_mean_norm |-> leverage_mean_norm,
      vol_ratio |-> vol_ratio,
      vol_mean |-> vol_mean,
      calm_part |-> calm_part,
      calm_mean |-> calm_mean,
      leverage_slope |-> leverage_slope,
      vol_slope |-> vol_slope,
      calm_slope |-> calm_slope,
      \* units of 1/10000: thousandths times tenths
      increase_pressure |->
          (350 - leverage_norm) * 20
          + (cr_norm - 550) * 15
          + (calm_part - calm_mean) * 8
          - Abs(vol_slope) * 6
          - Abs(calm_slope) * 4,
      decrease_pressure |->
          (leverage_norm - 650) * 20
          + (450 - cr_norm) * 17
          + (vol_ratio - vol_mean) * 9
          + Max(0, leverage_slope) * 8
          + Max(0, vol_slope) * 6,
      gap_abs |-> Abs(leverage_mean_norm - leverage_norm),
      calm_delta |-> Abs(calm_part - calm_mean),
      vol_delta |-> Abs(vol_ratio - vol_mean),
      \* units of 1/1000000: thousandths times thousandths
      leverage_actual |-> LEVERAGE_BOTTOM * One + leverage_norm * LEVERAGE_RANGE ]

\* Lines 40-50: the fields of obs, clamped or re-centered, and what is derived.
Derived(obs) ==
    DerivedOf(_clamp01(obs[1]), _clamp01(obs[2]), _clamp01(obs[3]),
              _zero_center(obs[4]), _clamp01(obs[5]), _clamp01(obs[6]),
              _zero_center(obs[7]), _clamp01(obs[8]), _clamp01(obs[9]),
              _zero_center(obs[10]))

\* faulty variant of the condition of rule 2: the coverage threshold is 0.40
Rule2Low(d) == d.cr_norm < 400 \/ d.vol_ratio > 950

\* faulty variants of the conditions of rules 1 and 2: a wrong threshold, and
\* "and" for "or"
Rule1Tight(d) == d.cr_norm > 650 /\ d.vol_ratio < 800
Rule2Both(d) == d.cr_norm < 480 /\ d.vol_ratio > 950

\* The conditions of the if/elif chain, lines 77-96, on the derived quantities.
Rule1(d) == d.cr_norm > 650 /\ d.vol_ratio < 900
Rule2(d) == d.cr_norm < 480 \/ d.vol_ratio > 950
Rule3(d) == d.leverage_slope > 120 \/ d.vol_slope > 120
Rule4(d) == d.leverage_slope < -120 \/ d.vol_slope < -120
Rule5(d) == d.gap_abs < 20 /\ d.calm_delta < 30 /\ d.vol_delta < 30
Rule6(d) == d.leverage_actual < (LEVERAGE_BOTTOM + 100) * One /\ d.cr_norm >= 520
Rule7(d) == d.leverage_actual > (LEVERAGE_TOP - 100) * One \/ d.cr_norm <= 420
Rule8(d) == d.increase_pressure > 4000 /\ d.decrease_pressure < 2000
Rule9(d) == d.decrease_pressure > 3000 /\ d.increase_pressure < 2500
Hysteresis(d) == Abs(d.leverage_slope) < 50 /\ Abs(d.vol_slope) < 50

\* faulty variant of the chain: the elif of rule 4 stands before that of rule 3
BranchOfSwapped(d) ==
    CASE Rule1(d) -> 1
      [] OTHER ->
    CASE Rule2(d) -> 2
      [] OTHER ->
    CASE Rule4(d) -> 4
      [] OTHER ->
    CASE Rule3(d) -> 3
      [] OTHER ->
    CASE Rule5(d) -> 5
      [] OTHER ->
    CASE Rule6(d) -> 6
      [] OTHER ->
    CASE Rule7(d) -> 7
      [] OTHER ->
    CASE Rule8(d) -> 8
      [] OTHER ->
    CASE Rule9(d) -> 9
      [] OTHER ->
    IF Hysteresis(d) THEN 10 ELSE 11

\* The if/elif chain of lines 77-101: the number of the branch taken, 1 to 9 for
\* the nine elif rules, 10 for the else branch when it echoes last_action and 11
\* when it does not.
BranchOf(d) ==
    CASE Rule1(d) -> 1
      [] OTHER ->
    CASE Rule2(d) -> 2
      [] OTHER ->
    CASE Rule3(d) -> 3
      [] OTHER ->
    CASE Rule4(d) -> 4
      [] OTHER ->
    CASE Rule5(d) -> 5
      [] OTHER ->
    CASE Rule6(d) -> 6
      [] OTHER ->
    CASE Rule7(d) -> 7
      [] OTHER ->
    CASE Rule8(d) -> 8
      [] OTHER ->
    CASE Rule9(d) -> 9
      [] OTHER ->
    IF Hysteresis(d) THEN 10 ELSE 11

Branch(obs) == BranchOf(Derived(obs))

\* faulty variant of the targets: rule 5 ("hold") keeps the last action
TargetActionHoldsLast(branch, last_action) ==
    CASE branch \in {1, 4, 6, 8} -> 2
      [] branch \in {2, 3, 7, 9} -> 3
      [] branch \in {5, 10} -> last_action
      [] OTHER -> 1

\* faulty variant of the targets: outside the hysteresis condition the else
\* branch keeps a last action of 2 or 3 (the two arms of lines 98-101 differ)
TargetActionKeepsDirection(branch, last_action) ==
    CASE branch \in {1, 4, 6, 8} -> 2
      [] branch \in {2, 3, 7, 9} -> 3
      [] branch = 5 -> 1
      [] branch = 10 -> last_action
      [] OTHER -> IF last_action \in {2, 3} THEN last_action ELSE 1

\* faulty variant of the targets: rule 8 gives way to a last action of 3
TargetActionDamped(branch, last_action) ==
    CASE branch \in {1, 4, 6} -> 2
      [] branch \in {2, 3, 7, 9} -> 3
      [] branch = 5 -> 1
      [] branch = 8 -> IF last_action = 3 THEN 1 ELSE 2
      [] branch = 10 -> last_action
      [] OTHER -> 1

\* target_action of each branch
TargetAction(branch, last_action) ==
    CASE branch = 1 -> 2
      [] branch = 2 -> 3
      [] branch = 3 -> 3
      [] branch = 4 -> 2
      [] branch = 5 -> 1
      [] branch = 6 -> 2
      [] branch = 7 -> 3
      [] branch = 8 -> 2
      [] branch = 9 -> 3
      [] branch = 10 -> last_action
      [] OTHER -> 1

\* _decide_action(obs, state): the action returned and the dict as it is left.
Decided(target_action) ==
    [action |-> target_action, state |-> StateOf(target_action)]

\* faulty variant of _decide_action: the assignment of line 103 is missing
_decide_action_not_stored(obs, st) ==
    [action |-> TargetAction(Branch(obs), GetLastAction(st)), state |-> st]

_decide_action(obs, st) ==
    Decided(TargetAction(Branch(obs), GetLastAction(st)))

----------------------------------------------------------------------------
(* Input lines and responses *)

\* An input line, by what line.strip() and json.loads make of it:
\*   blank     : empty after strip()
\*   malformed : not JSON, such as not-json
\*   value     : JSON, but not an object (val: number, string, array, null, true)
\*   object    : a JSON object; type is its "type" field (missing, reset, infer,
\*               other: another string, nonstring: not a string), obsk the kind of
\*               its "obs" field and obs the elements when that is an array
Line(kind, val, type, obsk, obs) ==
    [kind |-> kind, val |-> val, type |-> type, obsk |-> obsk, obs |-> obs]
NoLine == Line("none", "", "", "", <<>>)
BlankLine == Line("blank", "", "", "", <<>>)
MalformedLine == Line("malformed", "", "", "", <<>>)
ValueLine(val) == Line("value", val, "", "", <<>>)
ObjectLine(type, obsk) == Line("object", "", type, obsk, <<>>)
InferLine(obs) == Line("object", "", "infer", "list", obs)

\* A response line: the one key of the JSON object printed and its value.
NoResponse == [key |-> "", str |-> "", num |-> 0]
ActionResponse(a) == [key |-> "action", str |-> "", num |-> a]
StatusReset == [key |-> "status", str |-> "reset", num |-> 0]
ErrorResponse(msg) == [key |-> "error", str |-> msg, num |-> 0]

\* What a call leaves: the exception it raised (""  none), the (success, response)
\* it returned, the dict as it left it, and whether it called the evaluator.
Raised(exc, st, ev) ==
    [exc |-> exc, success |-> FALSE, response |-> NoResponse, state |-> st,
     evaluated |-> ev]
Returned(success, response, st, ev) ==
    [exc |-> "", success |-> success, response |-> response, state |-> st,
     evaluated |-> ev]

----------------------------------------------------------------------------
(* agents/debt/inference.py: _handle_command *)

\* The for loop of lines 120-125: the exception of the first element float()
\* rejects ("" when it takes them all).
FirstIn(bad) == CHOOSE i \in bad : \A j \in bad : i <= j
ExcAt(obs, bad) == IF bad = {} THEN "" ELSE ToFloat(obs[FirstIn(bad)]).exc
FirstExc(obs) == ExcAt(obs, {i \in 1..Len(obs) : ToFloat(obs[i]).exc # ""})

obs_numbers(obs) == [i \in 1..Len(obs) |-> ToFloat(obs[i]).x]

\* faulty variant of the reset branch: state.clear() is missing
HandleResetKeeping(st) == Returned(TRUE, StatusReset, st, FALSE)

\* faulty variant of the error returns: the dict is cleared on the way out
RejectClearing(msg, st) == Returned(FALSE, ErrorResponse(msg), EmptyState, FALSE)

\* faulty variant of the reset branch: the memory is set to action 0
HandleResetZero(st) == Returned(TRUE, StatusReset, StateOf(0), FALSE)

\* cmd == "reset": state.clear()
HandleReset(st) == Returned(TRUE, StatusReset, EmptyState, FALSE)

\* return False, {"error": ...}
Reject(msg, st) == Returned(FALSE, ErrorResponse(msg), st, FALSE)

\* lines 127-128
ReturnAction(r) == Returned(TRUE, ActionResponse(r.action), r.state, TRUE)
HandleDecide(obs, st) == ReturnAction(_decide_action(obs_numbers(obs), st))

\* lines 120-128: exc is what the conversion loop raised
HandleConverted(exc, obs, st) ==
    IF exc \in {"TypeError", "ValueError"} THEN Reject("invalid_observation", st)
    ELSE IF exc # "" THEN Raised(exc, st, FALSE)
    ELSE HandleDecide(obs, st)

\* lines 116-128
HandleInfer(payload, st) ==
    IF payload.obsk # "list" \/ Len(payload.obs) # OBS_DIM
    THEN Reject("invalid_observation", st)
    ELSE HandleConverted(FirstExc(payload.obs), payload.obs, st)

_handle_command(payload, st) ==
    IF payload.kind # "object" THEN Raised("AttributeError", st, FALSE)   \* payload.get
    ELSE IF payload.type = "reset" THEN HandleReset(st)
    ELSE IF payload.type # "infer" THEN Reject("unknown_command", st)
    ELSE HandleInfer(payload, st)

\* One iteration of the loop of main() on a line: what it prints and leaves.
DebtIteration(l, st) ==
    CASE l.kind = "blank" -> Returned(TRUE, NoResponse, st, FALSE)
      [] l.kind = "malformed" ->
            Returned(FALSE, ErrorResponse("invalid_json"), st, FALSE)
      [] OTHER -> _handle_command(l, st)

----------------------------------------------------------------------------
(* agents/alm: the feed-forward service *)

\* The elements torch.tensor(obs, dtype=torch.float32) takes.
IsTensorNumber(e) == e.k \in {"num", "true", "nan", "inf", "ninf"}
TensorValue(e) == IF e.k = "num" THEN e.v ELSE IF e.k = "true" THEN One ELSE 0

\* actor.forward: the two logits of an observation of four finite numbers.  The
\* weights are loaded from a file at start-up; any fixed map stands for them.
Logits(obs) ==
    << 2 * TensorValue(obs[1]) + TensorValue(obs[3]),
       TensorValue(obs[2]) + 2 * TensorValue(obs[4]) >>

\* torch.argmax: the lowest index holding the maximum, as an action (0-based)
ArgMax(logits) ==
    (CHOOSE i \in 1..Len(logits) :
        /\ \A j \in 1..Len(logits) : logits[j] <= logits[i]
        /\ \A j \in 1..(i - 1) : logits[j] < logits[i]) - 1

\* What the evaluator does with non-finite input depends on the weights: it
\* raises, or returns one of the actions.
EvalOutcomes == {"raise"} \cup {"a0", "a1"}

\* faulty variant of act: deterministic=False, so that dist.sample() draws the
\* action (nd stands for the draw)
AlmActSampled(obs, nd) ==
    IF \E i \in 1..Len(obs) : ~IsTensorNumber(obs[i]) THEN -1
    ELSE IF nd = "a0" THEN 0 ELSE 1

\* actor.act(obs, deterministic=True): the action, or -1 when it raises.
AlmAct(obs, nd) ==
    IF \E i \in 1..Len(obs) : ~IsTensorNumber(obs[i]) THEN -1
    ELSE IF \E i \in 1..Len(obs) : obs[i].k \in {"nan", "inf", "ninf"}
         THEN (CASE nd = "raise" -> -1 [] nd = "a0" -> 0 [] OTHER -> 1)
    ELSE ArgMax(Logits(obs))

\* lines 52-58 of main(): the response to what act() did
AlmActed(action) ==
    IF action < 0
    THEN Returned(FALSE, ErrorResponse("exception message"), EmptyState, TRUE)
    ELSE Returned(TRUE, ActionResponse(action), EmptyState, TRUE)

\* lines 38-58 of main()
AlmCommand(payload, nd) ==
    IF payload.kind # "object" THEN Raised("AttributeError", EmptyState, FALSE)
    ELSE IF payload.type = "reset" THEN Returned(TRUE, StatusReset, EmptyState, FALSE)
    ELSE IF payload.type # "infer"
         THEN Returned(FALSE, ErrorResponse("unknown_command"), EmptyState, FALSE)
    ELSE IF payload.obsk # "list" \/ Len(payload.obs) # ALM_OBS_DIM
         THEN Returned(FALSE, ErrorResponse("invalid_observation"), EmptyState, FALSE)
    ELSE AlmActed(AlmAct(payload.obs, nd))

AlmIteration(l, nd) ==
    CASE l.kind = "blank" -> Returned(TRUE, NoResponse, EmptyState, FALSE)
      [] l.kind = "malformed" ->
            Returned(FALSE, ErrorResponse("invalid_json"), EmptyState, FALSE)
      [] OTHER -> AlmCommand(l, nd)

----------------------------------------------------------------------------
(* agents/debt/model.py: the recurrent evaluator *)

\* faulty variant of init_hidden: torch.ones for torch.zeros
init_hidden_ones == <<1, 1>>

\* init_hidden: the pair (h, c) of zero buffers
init_hidden == <<0, 0>>

\* The value a float enters the network with (a non-finite one is dealt with
\* in act).
NetValue(x) == IF isfinite(x) THEN x.v ELSE 0

\* The network of forward(): the logits at the last sequence position and the
\* new memory, as functions of the observation and the carried memory.  The
\* weights are loaded from a file; any fixed maps stand for them.
RecLogits(obs, hid) ==
    << NetValue(obs[1]) + 100 * hid[1], NetValue(obs[2]),
       NetValue(obs[5]) + 100 * hid[2], NetValue(obs[7]) >>
RecNewHidden(obs, hid) ==
    << (hid[1] + 1) % HiddenMod,
       (hid[1] + hid[2] + Cardinality({i \in 1..Len(obs) : NetValue(obs[i]) > 500}))
           % HiddenMod >>

\* forward(obs, hidden): logits, new_hidden
forward(obs, hid) ==
    [logits |-> RecLogits(obs, hid), hidden |-> RecNewHidden(obs, hid)]

\* act(obs, hidden): Categorical(logits=logits[:, -1, :]) raises on logits that
\* are not finite when it validates them (raises stands for whether it does);
\* dist.sample() then draws the action, any index of the distribution (draw
\* stands for the index drawn).  The action is -1 when act raises.
act(obs, hid, draw, raises) ==
    IF raises /\ \E i \in 1..Len(obs) : ~isfinite(obs[i])
    THEN [action |-> -1, hidden |-> hid]
    ELSE [action |-> draw, hidden |-> forward(obs, hid).hidden]

----------------------------------------------------------------------------
(* The recurrent service: the command loop of sections 4.1 to 4.3 and 7 of   *)
(* the specification around the evaluator above.                            *)

\* Section 4.3: the evaluator failed (the memory is reset to its initial
\* value and the message reported) or gave an action and the new memory.
RecActed(r) ==
    IF r.action < 0
    THEN Returned(FALSE, ErrorResponse("exception message"), init_hidden, TRUE)
    ELSE Returned(TRUE, ActionResponse(r.action), r.hidden, TRUE)

\* Sections 4.1 and 4.2: one command
RecCommand(payload, hid, draw, raises) ==
    IF payload.kind # "object" \/ payload.type \notin {"reset", "infer"}
    THEN Returned(FALSE, ErrorResponse("unknown_command"), hid, FALSE)
    ELSE IF payload.type = "reset" THEN Returned(TRUE, StatusReset, init_hidden, FALSE)
    ELSE IF payload.obsk # "list" \/ Len(payload.obs) # OBS_DIM
              \/ FirstExc(payload.obs) # ""
         THEN Returned(FALSE, ErrorResponse("invalid_observation"), hid, FALSE)
    ELSE RecActed(act(obs_numbers(payload.obs), hid, draw, raises))

\* Section 4.1: one line
RecIteration(l, hid, draw, raises) ==
    CASE l.kind = "blank" -> Returned(TRUE, NoResponse, hid, FALSE)
      [] l.kind = "malformed" ->
            Returned(FALSE, ErrorResponse("invalid_json"), hid, FALSE)
      [] OTHER -> RecCommand(l, hid, draw, raises)

----------------------------------------------------------------------------
(* The inputs *)

\* Values of the ten fields of an observation, in thousandths.
LeverageVals == {100, 250, 500, 750, 800}
CoverageVals == {300, 420, 480, 520, 650, 700}
LeverageMeanVals == {500, 600}
LeverageSlopeVals == {400, 500, 510, 530, 570}
VolSlopeVals == {400, 500, 530, 570}
VolRatioVals == {500, 800, 900, 950, 960}
VolMeanVals == {200, 500}
CalmVals == {500, 1000}
CalmMeanVals == {500}
CalmSlopeVals == {500, 900}

GridObs ==
    { << Num(l), Num(c), Num(lm), Num(ls), Num(vr), Num(vm), Num(vs), Num(ca),
         Num(cm), Num(cs) >> :
        l \in LeverageVals, c \in CoverageVals, lm \in LeverageMeanVals,
        ls \in LeverageSlopeVals, vr \in VolRatioVals, vm \in VolMeanVals,
        vs \in VolSlopeVals, ca \in CalmVals, cm \in CalmMeanVals,
        cs \in CalmSlopeVals }

\* Elements other than finite numbers of [0, 1].
OddElems ==
    {Elem("nan"), Elem("inf"), Elem("ninf"), Num(1500), Num(-500),
     [k |-> "numstr", v |-> 700], Elem("str"), Elem("null"), Elem("true"),
     Elem("bigint"), Elem("list")}

\* base with at most MaxOdd of its elements replaced by odd ones
Patched(base, P, f) ==
    SubSeq([i \in 1..Len(base) |-> IF i \in P THEN f[i] ELSE base[i]], 1, Len(base))
WithOdd(base) ==
    UNION { { Patched(base, P, f) : f \in [P -> OddElems] } :
            P \in {Q \in SUBSET (1..Len(base)) : Cardinality(Q) <= MaxOdd} }

\* n elements 0.5
Halves ==
    << Num(500), Num(500), Num(500), Num(500), Num(500), Num(500), Num(500),
       Num(500), Num(500), Num(500), Num(500) >>
Neutral(n) == SubSeq(Halves, 1, n)
Rule1Obs == [Neutral(OBS_DIM) EXCEPT ![2] = Num(700), ![5] = Num(800)]
Rule2Obs == [Neutral(OBS_DIM) EXCEPT ![2] = Num(300)]
FallbackObs == [Neutral(OBS_DIM) EXCEPT ![2] = Num(520), ![3] = Num(600)]

OddObs ==
    WithOdd(Neutral(OBS_DIM)) \cup WithOdd(Rule1Obs)
        \cup WithOdd(Rule2Obs) \cup WithOdd(FallbackObs)

AlmGridVals == {0, 500, 1000}
AlmGridObs ==
    { << Num(a), Num(b), Num(c), Num(d) >> :
        a \in AlmGridVals, b \in AlmGridVals, c \in AlmGridVals, d \in AlmGridVals }
AlmObs ==
    AlmGridObs
        \cup {[Neutral(ALM_OBS_DIM) EXCEPT ![i] = e] : i \in 1..ALM_OBS_DIM, e \in OddElems}

\* arrays of the lengths around those the two services take
OtherLengths == {Neutral(n) : n \in {0, 4, 9, 10, 11}}

CommonLines ==
    {BlankLine, MalformedLine}
        \cup {ValueLine(v) : v \in {"number", "string", "array", "null", "true"}}
        \cup {ObjectLine(t, k) : t \in {"missing", "reset", "other", "nonstring"},
                                 k \in {"missing", "list"}}
        \cup {ObjectLine("infer", k) :
                k \in {"missing", "string", "number", "null", "object"}}
        \cup {InferLine(o) : o \in OtherLengths}

\* the lines the debt service is fed come from three families
GridLines == {InferLine(o) : o \in GridObs}
OddLines == {InferLine(o) : o \in OddObs}
Families == {"common", "grid", "odd"}
DebtLines(family) ==
    CASE family = "common" -> CommonLines
      [] family = "grid" -> GridLines
      [] OTHER -> OddLines
AlmLines == CommonLines \cup {InferLine(o) : o \in AlmObs}

\* the observations the recurrent service is fed
RecOddElems ==
    {Elem("nan"), Elem("inf"), Num(1500), Elem("str"), Elem("null"), Elem("bigint")}
RecObs ==
    {Neutral(OBS_DIM), Rule1Obs, FallbackObs}
        \cup {[Neutral(OBS_DIM) EXCEPT ![i] = e] : i \in {1, 7}, e \in RecOddElems}
RecLines == CommonLines \cup {InferLine(o) : o \in RecObs}

----------------------------------------------------------------------------
(* The processes *)

\* an array of JSON numbers
AllNumbers(obs) == \A i \in 1..Len(obs) : obs[i].k = "num"

\* an earlier answer: the observation and the action printed for it
NoAnswer == [obs |-> <<>>, action |-> -1]
Answer(obs, action) == [obs |-> obs, action |-> action]

Init ==
    /\ svc \in {"debt", "alm", "rec"}
    /\ pc = "read"
    /\ line = NoLine
    /\ state = EmptyState
    /\ out = NoResponse
    /\ prev = IF svc = "rec" THEN init_hidden ELSE EmptyState
    /\ emitted = 0
    /\ justReset = FALSE
    /\ shadow = EmptyState
    /\ shadowOut = NoResponse
    /\ fresh = EmptyState
    /\ freshOut = NoResponse
    /\ evaluated = FALSE
    /\ answered = NoAnswer
    /\ hidden = init_hidden
    /\ recovered = FALSE

\* the action last printed since the last reset, after one more response
EmittedAfter(e, response) ==
    CASE response.key = "action" -> response.num
      [] response.key = "status" -> 0
      [] OTHER -> e

\* One iteration of the for loop of main(), lines 133-149: the next line is
\* read and the body runs to its end.
DebtLine ==
    /\ svc = "debt" /\ pc = "read"
    /\ \E family \in Families : \E l \in DebtLines(family) :
         \E r \in {DebtIteration(l, state)} :
         \E s \in {IF shadow = state THEN r ELSE DebtIteration(l, shadow)} :
         \E f \in {IF fresh = state THEN r ELSE DebtIteration(l, fresh)} :
             /\ r.exc = ""
             /\ line' = l
             /\ state' = r.state
             /\ out' = r.response
             /\ evaluated' = r.evaluated
             /\ emitted' = EmittedAfter(emitted, r.response)
             /\ IF r.response.key = "error"
                THEN UNCHANGED <<shadow, shadowOut>>
                ELSE shadow' = s.state /\ shadowOut' = s.response
             /\ IF r.response = StatusReset
                THEN fresh' = EmptyState /\ freshOut' = NoResponse
                ELSE fresh' = f.state /\ freshOut' = f.response
    /\ pc' = "handled"
    /\ UNCHANGED <<svc, prev, justReset>>
    /\ UNCHANGED answered
    /\ UNCHANGED <<hidden, recovered>>

\* The next line is read and an exception leaves _handle_command and main():
\* the process ends.
DebtCrash ==
    /\ svc = "debt" /\ pc = "read"
    /\ \E family \in Families : \E l \in DebtLines(family) :
         /\ DebtIteration(l, state).exc # ""
         /\ line' = l
    /\ pc' = "crashed"
    /\ UNCHANGED <<svc, state, out, prev, emitted, justReset, shadow,
                   shadowOut, fresh, freshOut, evaluated>>
    /\ UNCHANGED answered
    /\ UNCHANGED <<hidden, recovered>>

\* continue, or the end of the loop body: back to the top of the loop
DebtNext ==
    /\ svc = "debt" /\ pc = "handled"
    /\ pc' = "read"
    /\ line' = NoLine
    /\ out' = NoResponse
    /\ prev' = state
    /\ justReset' = IF out = NoResponse THEN justReset ELSE out = StatusReset
    /\ shadowOut' = NoResponse
    /\ freshOut' = NoResponse
    /\ evaluated' = FALSE
    /\ UNCHANGED <<svc, state, emitted, shadow, fresh>>
    /\ UNCHANGED answered
    /\ UNCHANGED <<hidden, recovered>>

\* sys.stdin is exhausted: the loop and main() end
DebtEof ==
    /\ svc = "debt" /\ pc = "read"
    /\ pc' = "eof"
    /\ UNCHANGED <<svc, line, state, out, prev, emitted, justReset, shadow,
                   shadowOut, fresh, freshOut, evaluated>>
    /\ UNCHANGED answered
    /\ UNCHANGED <<hidden, recovered>>

\* One iteration of the for loop of main(), lines 27-58.
AlmLine ==
    /\ svc = "alm" /\ pc = "read"
    /\ \E l \in AlmLines, nd \in EvalOutcomes :
         \E r \in {AlmIteration(l, nd)} :
             /\ r.exc = ""
             /\ line' = l
             /\ out' = r.response
             /\ evaluated' = r.evaluated
    /\ pc' = "handled"
    /\ UNCHANGED <<svc, state, prev, emitted, justReset, shadow, shadowOut,
                   fresh, freshOut>>
    /\ UNCHANGED answered
    /\ UNCHANGED <<hidden, recovered>>

\* payload.get raises on a payload that is no dict: the process ends
AlmCrash ==
    /\ svc = "alm" /\ pc = "read"
    /\ \E l \in AlmLines, nd \in EvalOutcomes :
         /\ AlmIteration(l, nd).exc # ""
         /\ line' = l
    /\ pc' = "crashed"
    /\ UNCHANGED <<svc, state, out, prev, emitted, justReset, shadow,
                   shadowOut, fresh, freshOut, evaluated>>
    /\ UNCHANGED answered
    /\ UNCHANGED <<hidden, recovered>>

AlmNext ==
    /\ svc = "alm" /\ pc = "handled"
    /\ pc' = "read"
    /\ line' = NoLine
    /\ out' = NoResponse
    /\ justReset' = IF out = NoResponse THEN justReset ELSE out = StatusReset
    /\ evaluated' = FALSE
    /\ UNCHANGED <<svc, state, prev, emitted, shadow, shadowOut, fresh, freshOut>>
    /\ \E keep \in BOOLEAN :
         answered' = IF keep \/ out.key # "action" \/ ~AllNumbers(line.obs)
                     THEN answered
                     ELSE Answer(line.obs, out.num)
    /\ UNCHANGED <<hidden, recovered>>

AlmEof ==
    /\ svc = "alm" /\ pc = "read"
    /\ pc' = "eof"
    /\ UNCHANGED <<svc, line, state, out, prev, emitted, justReset, shadow,
                   shadowOut, fresh, freshOut, evaluated>>
    /\ UNCHANGED answered
    /\ UNCHANGED <<hidden, recovered>>

\* One iteration of the loop of the recurrent service: the next line is read
\* and answered.
RecLine ==
    /\ svc = "rec" /\ pc = "read"
    /\ \E l \in RecLines, draw \in 0..(ACTION_DIM - 1), raises \in BOOLEAN :
         \E r \in {RecIteration(l, hidden, draw, raises)} :
             /\ line' = l
             /\ hidden' = r.state
             /\ out' = r.response
             /\ evaluated' = r.evaluated
    /\ pc' = "handled"
    /\ UNCHANGED <<svc, state, prev, emitted, justReset, shadow, shadowOut,
                   fresh, freshOut, answered, recovered>>

RecNext ==
    /\ svc = "rec" /\ pc = "handled"
    /\ pc' = "read"
    /\ line' = NoLine
    /\ out' = NoResponse
    /\ prev' = hidden
    /\ justReset' = IF out = NoResponse THEN justReset ELSE out = StatusReset
    /\ recovered' = IF evaluated THEN out.key = "error"
                    ELSE IF out = StatusReset THEN FALSE ELSE recovered
    /\ evaluated' = FALSE
    /\ UNCHANGED <<svc, state, emitted, shadow, shadowOut, fresh, freshOut,
                   answered, hidden>>

RecEof ==
    /\ svc = "rec" /\ pc = "read"
    /\ pc' = "eof"
    /\ UNCHANGED <<svc, line, state, out, prev, emitted, justReset, shadow,
                   shadowOut, fresh, freshOut, evaluated, answered, hidden,
                   recovered>>

Next ==
    \/ DebtLine \/ DebtCrash \/ DebtNext \/ DebtEof
    \/ AlmLine \/ AlmCrash \/ AlmNext \/ AlmEof
    \/ RecLine \/ RecNext \/ RecEof

Spec == Init /\ [][Next]_vars

----------------------------------------------------------------------------
(* Properties *)

\* an infer command carrying an array of n elements
IsInferOf(l, n) ==
    l.kind = "object" /\ l.type = "infer" /\ l.obsk = "list" /\ Len(l.obs) = n

\* the elements float() takes
Floatable(e) == e.k \in {"num", "nan", "inf", "ninf", "numstr", "true"}
AllFloatable(obs) == \A i \in 1..Len(obs) : Floatable(obs[i])

\* the elements that are not convertible to a real number
NotConvertible(e) == e.k \in {"str", "null", "list"}

\* the rule-based service has dealt with an infer command of ten numbers
DebtInferred ==
    svc = "debt" /\ pc = "handled" /\ IsInferOf(line, OBS_DIM)
        /\ AllFloatable(line.obs)

\* the clamped and re-centered fields of the observation of line l
Seen(l) == Derived(obs_numbers(l.obs))

\* Section 4.4 of the specification: none of the rules 1 to 9 matches.
NoRuleOf1to9(d) ==
    /\ ~(d.cr_norm > 650 /\ d.vol_ratio < 900)
    /\ ~(d.cr_norm < 480 \/ d.vol_ratio > 950)
    /\ ~(d.leverage_slope > 120 \/ d.vol_slope > 120)
    /\ ~(d.leverage_slope < -120 \/ d.vol_slope < -120)
    /\ ~(d.gap_abs < 20 /\ d.calm_delta < 30 /\ Abs(d.vol_ratio - d.vol_mean) < 30)
    /\ ~(d.leverage_actual < 1900000 /\ d.cr_norm >= 520)
    /\ ~(d.leverage_actual > 2100000 \/ d.cr_norm <= 420)
    /\ ~(d.increase_pressure > 4000 /\ d.decrease_pressure < 2000)
    /\ ~(d.decrease_pressure > 3000 /\ d.increase_pressure < 2500)

\* both re-centered slopes are within 0.05 of zero
SlopesSmall(d) == Abs(d.leverage_slope) < 50 /\ Abs(d.vol_slope) < 50

\* the dict that holds the action a as its last action (0: none was emitted)
MemoryOf(a) == IF a = 0 THEN EmptyState ELSE StateOf(a)

(***************************************************************************)
(* C1.  In the rule-based service a line answered with an error            *)
(* (invalid_json, unknown_command, invalid_observation) leaves the         *)
(* last-action memory as it was, and from then on the session answers      *)
(* every line as a session that was never sent the rejected lines does.    *)
(***************************************************************************)
C1_RejectedLineLeavesMemory ==
    svc = "debt" =>
        /\ shadow = state
        /\ pc = "handled" /\ out.key = "error" =>
              /\ out.str \in {"invalid_json", "unknown_command", "invalid_observation"}
              /\ state = prev
        /\ pc = "handled" /\ out.key # "error" => shadowOut = out

\* an observation of 9 elements is rejected while the memory holds action 2
C1_Witness ==
    /\ svc = "debt" /\ pc = "handled"
    /\ IsInferOf(line, 9)
    /\ out = ErrorResponse("invalid_observation")
    /\ prev = StateOf(2) /\ state = StateOf(2)

(***************************************************************************)
(* C2.  Hysteresis: when the last successful infer since the last reset    *)
(* emitted action a, an infer whose observation matches none of the rules  *)
(* 1 to 9 and has both re-centered slopes within 0.05 of zero emits a      *)
(* again, so that repeated such calls keep emitting a.                     *)
(***************************************************************************)
C2_Hysteresis ==
    [][ ( /\ svc = "debt" /\ pc = "read" /\ pc' = "handled"
          /\ emitted # 0
          /\ IsInferOf(line', OBS_DIM) /\ AllFloatable(line'.obs)
          /\ NoRuleOf1to9(Seen(line')) /\ SlopesSmall(Seen(line')) )
        => out' = ActionResponse(emitted) /\ emitted' = emitted ]_vars

\* action 2 was emitted and is emitted again in the fallback branch
C2_Witness ==
    /\ DebtInferred
    /\ NoRuleOf1to9(Seen(line)) /\ SlopesSmall(Seen(line))
    /\ prev = StateOf(2)
    /\ out = ActionResponse(2) /\ emitted = 2

(***************************************************************************)
(* C3.  In the rule-based service the memory is at all times the action    *)
(* emitted by the last successful infer since the last reset, or absent    *)
(* when there was none; only a successful infer or a reset changes it.     *)
(***************************************************************************)
C3_MemoryIsLastEmitted ==
    svc = "debt" =>
        /\ state = MemoryOf(emitted)
        /\ pc = "handled" /\ out.key = "action" => state = StateOf(out.num)
        /\ pc = "handled" /\ out.key \notin {"action", "status"} => state = prev

\* an infer replaces the action 2 held by the memory with the action 3
C3_Witness ==
    /\ DebtInferred
    /\ prev = StateOf(2)
    /\ out = ActionResponse(3) /\ state = StateOf(3) /\ emitted = 3

(***************************************************************************)
(* C4.  reset is idempotent in the rule-based service: every reset, also   *)
(* one that follows a reset, answers {"status": "reset"} and leaves the    *)
(* memory absent, read as the default 1; after a reset the session         *)
(* answers as a fresh session sent the same lines does.                    *)
(***************************************************************************)
C4_ResetIdempotent ==
    svc = "debt" =>
        /\ pc = "handled" /\ line.kind = "object" /\ line.type = "reset" =>
              /\ out = StatusReset
              /\ state = EmptyState
              /\ GetLastAction(state) = 1
        /\ fresh = state
        /\ pc = "handled" /\ out # StatusReset => freshOut = out

\* the second of two resets in a row
C4_Witness ==
    /\ svc = "debt" /\ pc = "handled"
    /\ line.kind = "object" /\ line.type = "reset"
    /\ justReset
    /\ out = StatusReset /\ state = EmptyState

(***************************************************************************)
(* C5.  In both services the loop of main() never ends because of what a   *)
(* line holds: it ends only when the input stream ends.                    *)
(***************************************************************************)
C5_LoopEndsOnlyAtEof == pc # "crashed"

(***************************************************************************)
(* C6.  In both services an infer command whose obs is missing, is no      *)
(* array, has not exactly D elements or holds an element that is not       *)
(* convertible to a real number is answered with invalid_observation,      *)
(* before any call of the evaluator.                                       *)
(***************************************************************************)
Dimension == IF svc = "alm" THEN ALM_OBS_DIM ELSE OBS_DIM
C6_InvalidObservationRejected ==
    ( /\ pc \in {"handled", "crashed"}
      /\ line.kind = "object" /\ line.type = "infer"
      /\ \/ line.obsk # "list"
         \/ Len(line.obs) # Dimension
         \/ \E i \in 1..Len(line.obs) : NotConvertible(line.obs[i]) )
    => /\ pc = "handled"
       /\ out = ErrorResponse("invalid_observation")
       /\ ~evaluated

(***************************************************************************)
(* C7.  Every non-blank line that parses as JSON and is neither a reset    *)
(* nor an infer command is answered with unknown_command.                  *)
(***************************************************************************)
C7_UnknownCommand ==
    ( /\ pc \in {"handled", "crashed"}
      /\ line.kind \in {"value", "object"}
      /\ ~(line.kind = "object" /\ line.type \in {"reset", "infer"}) )
    => pc = "handled" /\ out = ErrorResponse("unknown_command")

(***************************************************************************)
(* C8.  The rule-based engine is total: an infer of ten numbers, also      *)
(* out of range or non-finite ones, is answered with an action of          *)
(* {0, 1, 2, 3}, the action it gives when each non-finite plain field is   *)
(* replaced by 0 and each non-finite slope field by 0.5 (re-centered 0).   *)
(***************************************************************************)
IsSlopeField(i) == i \in {4, 7, 10}
Finite(obs) ==
    [i \in 1..Len(obs) |->
        IF obs[i].k \in {"nan", "inf", "ninf"}
        THEN (IF IsSlopeField(i) THEN Num(500) ELSE Num(0))
        ELSE obs[i]]
C9_Rule1Dominates ==
    ( /\ DebtInferred
      /\ _clamp01(ToFloat(line.obs[2]).x) > 650
      /\ _clamp01(ToFloat(line.obs[5]).x) < 900 )
    => out = ActionResponse(2) /\ state = StateOf(2)

\* coverage 0.7 and vol_ratio 0.8 with a leverage slope above 0.12, memory 3
C9_Witness ==
    /\ DebtInferred
    /\ line.obs[2] = Num(700) /\ line.obs[5] = Num(800)
    /\ line.obs[4] = Num(570)
    /\ prev = StateOf(3)
    /\ out = ActionResponse(2) /\ state = StateOf(2)

(***************************************************************************)
(* C10.  Rule 2: an observation whose clamped coverage is below 0.48 or    *)
(* whose clamped vol_ratio is above 0.95 never matches rule 1 and is       *)
(* answered with action 3 whatever the other fields and the memory, and    *)
(* the memory becomes 3.                                                   *)
(***************************************************************************)
C10_Rule2 ==
    ( /\ DebtInferred
      /\ \/ _clamp01(ToFloat(line.obs[2]).x) < 480
         \/ _clamp01(ToFloat(line.obs[5]).x) > 950 )
    => /\ Branch(obs_numbers(line.obs)) = 2
       /\ out = ActionResponse(3) /\ state = StateOf(3)

\* coverage 0.3 with a vol slope below -0.12 (rule 4 would give 2), memory 2
C10_Witness ==
    /\ DebtInferred
    /\ line.obs[2] = Num(300) /\ line.obs[7] = Num(400)
    /\ prev = StateOf(2)
    /\ out = ActionResponse(3) /\ state = StateOf(3)

(***************************************************************************)
(* C11.  Balanced inputs mean hold: an observation that matches none of    *)
(* the rules 1 to 4 and whose clamped leverage_mean equals its leverage,   *)
(* calm its calm_mean and vol_ratio its vol_mean (the observation of ten   *)
(* 0.5 is one) is answered with action 1 whatever the memory, also when    *)
(* it holds 2 or 3, and the memory becomes 1.                              *)
(***************************************************************************)
\* Section 4.4 of the specification: none of the rules 1 to 4 matches.
NoRuleOf1to4(d) ==
    /\ ~(d.cr_norm > 650 /\ d.vol_ratio < 900)
    /\ ~(d.cr_norm < 480 \/ d.vol_ratio > 950)
    /\ ~(d.leverage_slope > 120 \/ d.vol_slope > 120)
    /\ ~(d.leverage_slope < -120 \/ d.vol_slope < -120)

Balanced(d) ==
    /\ d.leverage_mean_norm = d.leverage_norm
    /\ d.calm_part = d.calm_mean
    /\ d.vol_ratio = d.vol_mean

C11_BalancedHolds ==
    DebtInferred /\ Balanced(Seen(line)) /\ NoRuleOf1to4(Seen(line))
        => out = ActionResponse(1) /\ state = StateOf(1)

\* ten fields of 0.5 while the memory holds action 3
C11_Witness ==
    /\ DebtInferred
    /\ line.obs = Neutral(OBS_DIM)
    /\ prev = StateOf(3)
    /\ out = ActionResponse(1) /\ state = StateOf(1)

(***************************************************************************)
(* C12.  The feed-forward service is stateless and deterministic: an       *)
(* infer carrying four finite numbers is answered with the action that an  *)
(* earlier infer carrying the same observation was answered with,          *)
(* whatever lines (reset, other infers, rejected lines) came in between.   *)
(***************************************************************************)
C12_AlmDeterministic ==
    ( /\ svc = "alm" /\ pc = "handled"
      /\ IsInferOf(line, ALM_OBS_DIM) /\ AllNumbers(line.obs)
      /\ answered.obs = line.obs )
    => out = ActionResponse(answered.action)

\* the same observation again, right after a reset
C12_Witness ==
    /\ svc = "alm" /\ pc = "handled"
    /\ IsInferOf(line, ALM_OBS_DIM) /\ AllNumbers(line.obs)
    /\ answered.obs = line.obs
    /\ justReset
    /\ out = ActionResponse(answered.action)

(***************************************************************************)
(* C13.  The recurrent evaluator's act returns the arg-max of the score    *)
(* vector at the last sequence position, a function of the observation    *)
(* and the carried memory, together with the updated memory.               *)
(***************************************************************************)
\* the recurrent service evaluated an observation of ten finite numbers
RecEvaluatedFinite ==
    /\ svc = "rec" /\ pc = "handled" /\ evaluated
    /\ \A i \in 1..Len(line.obs) : isfinite(ToFloat(line.obs[i]).x)

C13_ActIsArgMax ==
    RecEvaluatedFinite =>
        /\ out = ActionResponse(ArgMax(forward(obs_numbers(line.obs), prev).logits))
        /\ hidden = forward(obs_numbers(line.obs), prev).hidden

(***************************************************************************)
(* C14.  In a recurrent session, when the evaluator fails during an infer  *)
(* the memory after that command is the initial zero state, the failure    *)
(* message is the error response, and the next infer starts from that      *)
(* initial memory.                                                         *)
(***************************************************************************)
ZeroMemory == <<0, 0>>

C15_OneResponsePerLine ==
    pc \in {"handled", "crashed"} =>
        /\ line.kind = "blank" => out = NoResponse
        /\ line.kind # "blank" => pc = "handled" /\ out # NoResponse

(***************************************************************************)
(* C16.  For every observation of the grid and every memory,               *)
(* _decide_action returns the action of the first rule, in the order 1 to  *)
(* 10 of section 4.4 of the specification and with its comparisons and     *)
(* thresholds, whose condition holds on the clamped and re-centered        *)
(* inputs; when rules 3 and 4 both match and rules 1 and 2 do not, the     *)
(* action is 3.                                                            *)
(***************************************************************************)
\* Section 4.4: the derived quantities, in units of 1/10000 and 1/1000000
SpecIncreasePressure(d) ==
    (350 - d.leverage_norm) * 20 + (d.cr_norm - 550) * 15
        + (d.calm_part - d.calm_mean) * 8
        - Abs(d.vol_slope) * 6 - Abs(d.calm_slope) * 4
SpecDecreasePressure(d) ==
    (d.leverage_norm - 650) * 20 + (450 - d.cr_norm) * 17
        + (d.vol_ratio - d.vol_mean) * 9
        + Max(0, d.leverage_slope) * 8 + Max(0, d.vol_slope) * 6
SpecLeverageActual(d) == 1800000 + d.leverage_norm * 400

\* Section 4.4: the ordered rules 1 to 10
SpecAction(d, last_action) ==
    IF d.cr_norm > 650 /\ d.vol_ratio < 900 THEN 2
    ELSE IF d.cr_norm < 480 \/ d.vol_ratio > 950 THEN 3
    ELSE IF d.leverage_slope > 120 \/ d.vol_slope > 120 THEN 3
    ELSE IF d.leverage_slope < -120 \/ d.vol_slope < -120 THEN 2
    ELSE IF /\ Abs(d.leverage_mean_norm - d.leverage_norm) < 20
            /\ Abs(d.calm_part - d.calm_mean) < 30
            /\ Abs(d.vol_ratio - d.vol_mean) < 30 THEN 1
    ELSE IF SpecLeverageActual(d) < 1900000 /\ d.cr_norm >= 520 THEN 2
    ELSE IF SpecLeverageActual(d) > 2100000 \/ d.cr_norm <= 420 THEN 3
    ELSE IF SpecIncreasePressure(d) > 4000 /\ SpecDecreasePressure(d) < 2000 THEN 2
    ELSE IF SpecDecreasePressure(d) > 3000 /\ SpecIncreasePressure(d) < 2500 THEN 3
    ELSE IF Abs(d.leverage_slope) < 50 /\ Abs(d.vol_slope) < 50 THEN last_action
    ELSE 1

\* rules 3 and 4 both match and rules 1 and 2 do not
Rules3And4(d) ==
    /\ ~(d.cr_norm > 650 /\ d.vol_ratio < 900)
    /\ ~(d.cr_norm < 480 \/ d.vol_ratio > 950)
    /\ d.leverage_slope > 120 \/ d.vol_slope > 120
    /\ d.leverage_slope < -120 \/ d.vol_slope < -120

\* the response is that of the chain of the specification on the fields d
AnswersAsSpec(d) ==
    /\ out = ActionResponse(SpecAction(d, GetLastAction(prev)))
    /\ Rules3And4(d) => out = ActionResponse(3)

C16_FirstMatchingRule == DebtInferred => AnswersAsSpec(Seen(line))

\* leverage_slope 0.14 and vol_slope -0.2 while the memory holds action 2
C16_Witness ==
    /\ DebtInferred
    /\ Rules3And4(Seen(line))
    /\ line.obs[4] = Num(570) /\ line.obs[7] = Num(400)
    /\ prev = StateOf(2)
    /\ out = ActionResponse(3)

(***************************************************************************)
(* C17.  In the fallback rule 10 outside the hysteresis condition (none    *)
(* of the rules 1 to 9 matches and a re-centered leverage_slope or         *)
(* vol_slope is 0.05 or more in absolute value) the action is 1 for every  *)
(* memory and the memory becomes 1: a held 2 or 3 is dropped.              *)
(***************************************************************************)
\* rule 10 outside the hysteresis condition
FallbackDefault(d) == NoRuleOf1to9(d) /\ ~SlopesSmall(d)

C17_FallbackDefaultsToHold ==
    DebtInferred /\ FallbackDefault(Seen(line))
        => out = ActionResponse(1) /\ state = StateOf(1)

\* the memory holds action 2 and is dropped
C17_Witness ==
    /\ DebtInferred
    /\ NoRuleOf1to9(Seen(line)) /\ ~SlopesSmall(Seen(line))
    /\ prev = StateOf(2)
    /\ out = ActionResponse(1) /\ state = StateOf(1)

(***************************************************************************)
(* C18.  The memory influences the action only in the hysteresis branch    *)
(* of rule 10: a session holding any other memory that is sent the same    *)
(* observation prints the same action and is left with the same memory,    *)
(* unless the observation matches none of the rules 1 to 9 and has both    *)
(* re-centered slopes below 0.05 in absolute value.                        *)
(***************************************************************************)
Memories == {EmptyState} \cup {StateOf(a) : a \in 1..3}

\* rule 10 inside the hysteresis condition
FallbackEcho(d) == NoRuleOf1to9(d) /\ SlopesSmall(d)

\* _decide_action run on the floats obs from any other memory returns the
\* action printed and leaves the memory the session is left with
SameFromOtherMemories(obs) ==
    \A m \in Memories \ {prev} :
        ReturnAction(_decide_action(obs, m)) = Returned(TRUE, out, state, TRUE)

C18_MemoryOnlyInHysteresis ==
    DebtInferred /\ ~FallbackEcho(Seen(line))
        => SameFromOtherMemories(obs_numbers(line.obs))

\* rule 8 gives action 2 to a session whose memory holds 3
C18_Witness ==
    /\ DebtInferred
    /\ Branch(obs_numbers(line.obs)) = 8
    /\ prev = StateOf(3)
    /\ out = ActionResponse(2)
    /\ DebtIteration(line, StateOf(1)).response = out

(***************************************************************************)
(* C19.  In every reachable state of the rule-based service the memory is  *)
(* absent or one of 1, 2, 3, and no infer is answered with action 0.       *)
(***************************************************************************)
C19_NeverActionZero ==
    svc = "debt" =>
        /\ state \in Memories
        /\ out.key = "action" => out.num \in 1..3

\* the first infer after a reset lands in the hysteresis branch: the default 1
C19_Witness ==
    /\ DebtInferred
    /\ justReset /\ prev = EmptyState
    /\ Branch(obs_numbers(line.obs)) = 10
    /\ out = ActionResponse(1) /\ state = StateOf(1)

(***************************************************************************)
(* C20.  Whenever rule 7 decides the action, leverage_actual > 2.1 holds   *)
(* and coverage <= 0.42 does not: an observation whose clamped coverage    *)
(* is below 0.48 is decided by rule 2.                                     *)
(***************************************************************************)
\* on the fields d, the branch of rule 7 is taken for the leverage only
Rule7ByLeverage(d, branch) ==
    /\ branch = 7 => d.leverage_actual > 2100000 /\ ~(d.cr_norm <= 420)
    /\ d.cr_norm < 480 => branch = 2

C20_Rule7ByLeverage ==
    DebtInferred => Rule7ByLeverage(Seen(line), BranchOf(Seen(line)))

\* leverage 0.8 (leverage_actual 2.12) with coverage 0.52
C20_Witness ==
    /\ DebtInferred
    /\ Branch(obs_numbers(line.obs)) = 7
    /\ line.obs[1] = Num(800) /\ line.obs[2] = Num(520)
    /\ out = ActionResponse(3)

====
